---- MODULE Spec2Model ----
(***************************************************************************)
(* Asynchronous job execution and log streaming of the Ansible CGI runner  *)
(* (runner4.py; runner12.py has the same start_job / poll_job code and     *)
(* differs only in the directory constants).                               *)
(*                                                                         *)
(* Every request is its own short-lived CGI process, so the whole state of *)
(* a job lives in the file system: the job directory, command.txt,         *)
(* meta.json, output.log and rc.txt.  The actors are the start_job         *)
(* handlers, the spawned ansible child, the bash watcher that writes       *)
(* rc.txt, and the stateless poll_job requests.                            *)
(***************************************************************************)
EXTENDS Integers, Sequences, FiniteSets, TLC

\* ---------------------------------------------------------------- bounds
MaxStarts == 2      \* start_job requests in one behaviour
MaxWrites == 1      \* write() calls of one child, store life cycle (Spec)
MaxOutput == 3      \* write() calls of the child, log streaming (SpecRead)
MaxClock  == 2      \* last value of int(time.time())
ChunkSize == 2      \* characters per poll; stands for 128*1024
MaxPolls  == 2      \* requests of one independent poller (SpecPoll)

\* ------------------------------------------------------------- constants
RandHex   == {"aa", "bb"}              \* values of os.urandom(5).hex()
ExitCodes == {0, 1}                    \* exit statuses of the child
OutBytes  == {"a", "H", "T"}           \* bytes the child can write: ASCII,
                                       \* UTF-8 lead byte, continuation byte
NUL       == "0"                       \* hole byte of a sparse file
None      == -1                        \* Python None for rc / pid
CookieBase == 1000                     \* see ReadChunk: a text-mode tell()
                                       \* cookie is >= 2^96, above any size

ROOT     == << >>
RUN_HOME == <<"tmp", "www-ansible", "home">>
RUN_TMP  == <<"tmp", "www-ansible", "tmp">>
JOB_DIR  == <<"tmp", "www-ansible", "tmp">>

VARIABLES
  clock,     \* int(time.time())
  dirs,      \* the directories that exist, as paths from the root
  files,     \* per job directory: command.txt, meta.json, output.log, rc.txt
  hs,        \* the start_job request handlers (one CGI process each)
  child,     \* the command spawned by each handler
  watcher,   \* the bash watcher spawned by each handler
  cl,        \* the watch page of one browser: its pos, its log text, done
  pl,        \* independent poll clients: the last answer each received
  rq         \* one submitted form and what the script made of it

vars == <<clock, dirs, files, hs, child, watcher, cl, pl, rq>>

Handlers == 1..MaxStarts
Pollers  == {1, 2}

\* ------------------------------------------------------------ job ids
\* "%d_%s" % (int(time.time()), os.urandom(5).hex())
new_job_id(t, r) == ToString(t) \o "_" \o r

JobIds == {new_job_id(t, r) : t \in 1..MaxClock, r \in RandHex}

\* ids a poll request may carry: any string of the query
PollIds == JobIds \cup {"", "..", "ansible-local", "nosuch"}

\* ------------------------------------------------------------ paths
\* os.path.join(JOB_DIR, job_id): an empty id yields JOB_DIR itself
PathJoin(base, name) == IF name = "" THEN base ELSE Append(base, name)

job_paths(job_id) == [dir |-> PathJoin(JOB_DIR, job_id)]

Parent(p) == IF p = ROOT THEN ROOT ELSE SubSeq(p, 1, Len(p) - 1)

\* kernel path walk: every prefix has to be a directory, ".." steps up
RECURSIVE Walk(_, _, _)
Walk(ds, cur, rest) ==
  IF cur \notin ds THEN <<"ENOENT">>
  ELSE IF rest = << >> THEN cur
  ELSE IF Head(rest) = ".." THEN Walk(ds, Parent(cur), Tail(rest))
  ELSE Walk(ds, Append(cur, Head(rest)), Tail(rest))

\* os.path.isdir
IsDir(ds, p) == Walk(ds, ROOT, p) \in ds

RECURSIVE Prefixes(_)
Prefixes(p) == IF p = ROOT THEN {ROOT} ELSE {p} \cup Prefixes(Parent(p))

\* Path(p).mkdir(parents=True, exist_ok=True)
Mkdir(ds, p) == ds \cup Prefixes(p)

ensure_dirs(ds) == Mkdir(Mkdir(Mkdir(ds, RUN_HOME), RUN_TMP), JOB_DIR)

\* ------------------------------------------------------------ files
NoFile    == [exists |-> FALSE, data |-> << >>]
EmptyFile == [exists |-> TRUE,  data |-> << >>]
NoMeta    == [st |-> "absent", start_ts |-> 0, pid |-> None]
NoJobFiles == [cmd |-> FALSE, meta |-> NoMeta, log |-> NoFile, rc |-> NoFile]

\* the files of the directory a poll id resolves to: only job directories
\* ever hold output.log, meta.json or rc.txt
JobFiles(fs, ds, job_id) ==
  IF job_id \in JobIds /\ IsDir(ds, job_paths(job_id).dir) THEN fs[job_id]
  ELSE NoJobFiles

\* write(2) at a file offset: overwrite, append, or leave a hole of NULs
RECURSIVE Holes(_)
Holes(n) == IF n <= 0 THEN << >> ELSE <<NUL>> \o Holes(n - 1)

WriteAt(data, off, b) ==
  IF off < Len(data)
  THEN [i \in 1..Len(data) |-> IF i = off + 1 THEN b ELSE data[i]]
  ELSE data \o Holes(off - Len(data)) \o <<b>>


\* ------------------------------------------------------------ text reads
\* open(log, "r", encoding="utf-8", errors="replace"); f.seek(pos);
\* f.read(n); f.tell().  Bytes are decoded one character at a time: "H" "T"
\* is one two-byte character "E", a lead byte without its continuation and
\* a stray continuation byte each decode to the replacement character "?".
\* read(n) stops after n characters or at end of file.  tell() is the byte
\* offset, except that when the n-th character is the replacement of a
\* broken lead byte the decoder still holds state and tell() returns an
\* opaque cookie far above any file size (modelled as CookieBase + offset).
RECURSIVE ReadLoop(_, _, _, _, _)
ReadLoop(data, i, n, out, dirty) ==
  IF Len(out) < n /\ i < Len(data)
  THEN LET c == data[i + 1] IN
       IF c = "H"
       THEN IF i + 1 < Len(data) /\ data[i + 2] = "T"
            THEN ReadLoop(data, i + 2, n, Append(out, "E"), FALSE)
            ELSE ReadLoop(data, i + 1, n, Append(out, "?"), TRUE)
       ELSE IF c = "T"
       THEN ReadLoop(data, i + 1, n, Append(out, "?"), FALSE)
       ELSE ReadLoop(data, i + 1, n, Append(out, c), FALSE)
  ELSE [append |-> out,
        pos |-> IF dirty /\ Len(out) = n THEN CookieBase + i ELSE i]

\* faulty variant of ReadChunk: the new offset is len(chunk), not f.tell()
ReadChunkLen(data, pos, n) ==
  [append |-> ReadLoop(data, pos, n, << >>, FALSE).append,
   pos |-> Len(ReadLoop(data, pos, n, << >>, FALSE).append)]

ReadChunk(data, pos, n) == ReadLoop(data, pos, n, << >>, FALSE)

\* the text of a whole byte string (a read to end of file)
Decode(data) == ReadLoop(data, 0, Len(data) + 1, << >>, FALSE).append

\* bytes of data at the offsets lo <= k < hi
Slice(data, lo, hi) ==
  LET h == IF hi > Len(data) THEN Len(data) ELSE hi
  IN  IF lo >= h THEN << >> ELSE SubSeq(data, lo + 1, h)

\* ------------------------------------------------------------ rc.txt
\* what `echo N > rc.txt` writes
RcText(n) == <<ToString(n), "\n">>

\* str.strip(): white space is removed from both ends only
IsSpace(c) == c \in {" ", "\n"}

RECURSIVE LStrip(_)
LStrip(s) == IF s # << >> /\ IsSpace(Head(s)) THEN LStrip(Tail(s)) ELSE s

RECURSIVE RStrip(_)
RStrip(s) ==
  IF s # << >> /\ IsSpace(s[Len(s)]) THEN RStrip(SubSeq(s, 1, Len(s) - 1))
  ELSE s

DigitVal(c) == CASE c = "0" -> 0 [] c = "1" -> 1 [] c = "2" -> 2 [] OTHER -> None

\* the value of a string of decimal digits; None for anything else
RECURSIVE Digits(_, _)
Digits(s, acc) ==
  IF s = << >> THEN acc
  ELSE IF DigitVal(Head(s)) = None THEN None
  ELSE Digits(Tail(s), 10 * acc + DigitVal(Head(s)))

\* int(text): an optional sign and decimal digits, else ValueError
ParseInt(s) ==
  LET neg  == s # << >> /\ Head(s) = "-"
      body == IF neg THEN Tail(s) ELSE s
      v    == IF body = << >> THEN None ELSE Digits(body, 0)
  IN  [ok |-> v # None, val |-> IF neg THEN 0 - v ELSE v]

\* faulty variant of ParseRc: a marker without a number counts as success
ParseRcZero(data) ==
  IF ParseInt(RStrip(LStrip(data))).ok
  THEN ParseInt(RStrip(LStrip(data))).val ELSE 0

\* int((f.read() or "1").strip()); except Exception: rc = 1
ParseRc(data) ==
  LET text == IF data = << >> THEN <<"1">> ELSE data
      r    == ParseInt(RStrip(LStrip(text)))
  IN  IF r.ok THEN r.val ELSE 1

\* read_json(path, default): the default for a missing or unparsable file
read_json(meta) == IF meta.st = "full" THEN meta ELSE NoMeta

\* ------------------------------------------------------------ poll_job
\* faulty variant of poll_job: without a completion marker a job that has
\* outlived a time limit is reported done with rc 1
poll_job_pid(fs, ds, now, job_id, reqpos) ==
  IF ~IsDir(ds, job_paths(job_id).dir)
  THEN [kind |-> "error", error |-> "no-such-job"]
  ELSE
    LET jf   == JobFiles(fs, ds, job_id)
        sz   == IF jf.log.exists THEN Len(jf.log.data) ELSE 0
        pos0 == IF reqpos < 0 THEN 0 ELSE reqpos
        rd   == IF sz > pos0 /\ jf.log.exists
                THEN ReadChunk(jf.log.data, pos0, ChunkSize)
                ELSE [append |-> << >>, pos |-> pos0]
        rc   == IF jf.rc.exists THEN ParseRc(jf.rc.data)
                ELSE IF now > read_json(jf.meta).start_ts THEN 1 ELSE None
    IN  [kind |-> "ok", pos |-> rd.pos, append |-> rd.append,
         elapsed |-> 0, done |-> (rc # None), rc |-> rc]

poll_job(fs, ds, now, job_id, reqpos) ==
  IF ~IsDir(ds, job_paths(job_id).dir)
  THEN [kind |-> "error", error |-> "no-such-job"]
  ELSE
    LET jf       == JobFiles(fs, ds, job_id)
        meta     == read_json(jf.meta)
        start_ts == IF meta.st = "full" THEN meta.start_ts ELSE now
        sz       == IF jf.log.exists THEN Len(jf.log.data) ELSE 0
        pos0     == IF reqpos < 0 THEN 0 ELSE reqpos
        rd       == IF sz > pos0 /\ jf.log.exists
                    THEN ReadChunk(jf.log.data, pos0, ChunkSize)
                    ELSE [append |-> << >>, pos |-> pos0]
        rc       == IF jf.rc.exists THEN ParseRc(jf.rc.data) ELSE None
    IN  [kind |-> "ok", pos |-> rd.pos, append |-> rd.append,
         elapsed |-> now - start_ts, done |-> (rc # None), rc |-> rc]


\* ------------------------------------------------------------ state
IdleHandler == [pc |-> "idle", job |-> "", ts |-> 0, out |-> "none"]
NoChild     == [st |-> "none", job |-> "", off |-> 0, n |-> 0, code |-> None]
NoWatcher   == [st |-> "none", last |-> 0]
NoClient    == [on |-> FALSE, job |-> "", pos |-> 0, text |-> << >>,
                done |-> FALSE]
NoRequest   == [out |-> "none"]
NoPoller    == [n |-> 0, job |-> "", seen |-> << >>,
                resp |-> [kind |-> "none"]]

\* proc.pid of the child spawned by handler h: every spawn gets a fresh pid
ChildPid(h) == 100 + h

Init ==
  /\ clock = 1
  /\ dirs = {ROOT, <<"tmp">>}
  /\ files = [j \in JobIds |-> NoJobFiles]
  /\ hs = [h \in Handlers |-> IdleHandler]
  /\ child = [h \in Handlers |-> NoChild]
  /\ watcher = [h \in Handlers |-> NoWatcher]
  /\ cl = NoClient
  /\ pl = [i \in Pollers |-> NoPoller]
  /\ rq = NoRequest

\* int(time.time()) advances
Tick ==
  /\ clock < MaxClock
  /\ clock' = clock + 1
  /\ UNCHANGED <<dirs, files, hs, child, watcher, cl, pl, rq>>

\* ------------------------------------------------------------ start_job
\* request accepted: ensure_dirs() and the ansible-local directory
StartDirs(h) ==
  /\ hs[h].pc = "idle"
  /\ IF h = 1 THEN TRUE ELSE hs[h - 1].pc # "idle"
  /\ dirs' = Mkdir(ensure_dirs(dirs), Append(RUN_TMP, "ansible-local"))
  /\ hs' = [hs EXCEPT ![h].pc = "newid"]
  /\ UNCHANGED <<clock, files, child, watcher, cl, pl, rq>>

\* job_id = new_job_id(); mkdir(parents=True, exist_ok=True); command.txt
StartMkdir(h) ==
  /\ hs[h].pc = "newid"
  /\ \E r \in RandHex :
       LET id == new_job_id(clock, r) IN
       /\ dirs' = Mkdir(dirs, job_paths(id).dir)
       /\ files' = [files EXCEPT ![id].cmd = TRUE]
       /\ hs' = [hs EXCEPT ![h].pc = "meta_open", ![h].job = id]
  /\ UNCHANGED <<clock, child, watcher, cl, pl, rq>>

\* meta = {..., "start_ts": int(time.time()), "pid": None};
\* write_json: open(path, "w") truncates, json.dump fills
StartMetaOpen(h) ==
  /\ hs[h].pc = "meta_open"
  /\ files' = [files EXCEPT ![hs[h].job].meta =
                 [st |-> "empty", start_ts |-> 0, pid |-> None]]
  /\ hs' = [hs EXCEPT ![h].pc = "meta_dump", ![h].ts = clock]
  /\ UNCHANGED <<clock, dirs, child, watcher, cl, pl, rq>>

StartMetaDump(h) ==
  /\ hs[h].pc = "meta_dump"
  /\ files' = [files EXCEPT ![hs[h].job].meta =
                 [st |-> "full", start_ts |-> hs[h].ts, pid |-> None]]
  /\ hs' = [hs EXCEPT ![h].pc = "log_open"]
  /\ UNCHANGED <<clock, dirs, child, watcher, cl, pl, rq>>

\* logf = open(jp["log"], "w", ...): creates or truncates output.log
StartLogOpen(h) ==
  /\ hs[h].pc = "log_open"
  /\ files' = [files EXCEPT ![hs[h].job].log = EmptyFile]
  /\ hs' = [hs EXCEPT ![h].pc = "popen"]
  /\ UNCHANGED <<clock, dirs, child, watcher, cl, pl, rq>>

\* open(jp["log"], "w") raises (no space, no permission): the exception
\* leaves start_job and main() prints the traceback as the response
StartLogOpenFail(h) ==
  /\ hs[h].pc = "log_open"
  /\ hs' = [hs EXCEPT ![h].pc = "done", ![h].out = "error"]
  /\ UNCHANGED <<clock, dirs, files, child, watcher, cl, pl, rq>>

\* subprocess.Popen(cmd, stdout=logf, ...) returns: the child runs with its
\* own descriptor on output.log, at offset 0
StartPopenOk(h) ==
  /\ hs[h].pc = "popen"
  /\ child' = [child EXCEPT ![h] =
                 [st |-> "running", job |-> hs[h].job, off |-> 0, n |-> 0,
                  code |-> None]]
  /\ hs' = [hs EXCEPT ![h].pc = "meta2_open"]
  /\ UNCHANGED <<clock, dirs, files, watcher, cl, pl, rq>>

\* faulty variant of StartPopenFail: the except branch reports the error
\* but does not return
StartPopenFailNoReturn(h) ==
  /\ hs[h].pc = "popen"
  /\ files' = [files EXCEPT ![hs[h].job].log.data = WriteAt(@, 0, "F")]
  /\ hs' = [hs EXCEPT ![h].pc = "meta2_open", ![h].out = "error"]
  /\ UNCHANGED <<clock, dirs, child, watcher, cl, pl, rq>>

\* subprocess.Popen raises: the message goes to the log, the error to the
\* response, and start_job returns
StartPopenFail(h) ==
  /\ hs[h].pc = "popen"
  /\ files' = [files EXCEPT ![hs[h].job].log.data = WriteAt(@, 0, "F")]
  /\ hs' = [hs EXCEPT ![h].pc = "done", ![h].out = "error"]
  /\ UNCHANGED <<clock, dirs, child, watcher, cl, pl, rq>>

\* meta["pid"] = proc.pid; write_json(jp["meta"], meta)
StartMeta2Open(h) ==
  /\ hs[h].pc = "meta2_open"
  /\ files' = [files EXCEPT ![hs[h].job].meta =
                 [st |-> "empty", start_ts |-> 0, pid |-> None]]
  /\ hs' = [hs EXCEPT ![h].pc = "meta2_dump"]
  /\ UNCHANGED <<clock, dirs, child, watcher, cl, pl, rq>>

StartMeta2Dump(h) ==
  /\ hs[h].pc = "meta2_dump"
  /\ files' = [files EXCEPT ![hs[h].job].meta =
                 [st |-> "full", start_ts |-> hs[h].ts, pid |-> ChildPid(h)]]
  /\ hs' = [hs EXCEPT ![h].pc = "watcher"]
  /\ UNCHANGED <<clock, dirs, child, watcher, cl, pl, rq>>

\* subprocess.Popen(["bash", "-lc", "while kill -0 ..."]): $? is 0 until a
\* command of the script has run
StartWatcher(h) ==
  /\ hs[h].pc = "watcher"
  /\ watcher' = [watcher EXCEPT ![h] = [st |-> "loop", last |-> 0]]
  /\ hs' = [hs EXCEPT ![h].pc = "redirect"]
  /\ UNCHANGED <<clock, dirs, files, child, cl, pl, rq>>

\* faulty variant of StartRedirect: the process that printed the redirect
\* stays alive and never waits for its child
StartRedirectHold(h) ==
  /\ hs[h].pc = "redirect"
  /\ hs' = [hs EXCEPT ![h].pc = "done", ![h].out = "redirect"]
  /\ UNCHANGED <<clock, dirs, files, child, watcher, cl, pl, rq>>

\* faulty variant of StartRedirect: proc.wait() before the redirect
StartRedirectWait(h) ==
  /\ hs[h].pc = "redirect"
  /\ child[h].st # "running"
  /\ hs' = [hs EXCEPT ![h].pc = "done", ![h].out = "redirect"]
  /\ child' = [child EXCEPT ![h].st = IF @ = "zombie" THEN "gone" ELSE @]
  /\ UNCHANGED <<clock, dirs, files, watcher, cl, pl, rq>>

\* the redirect to ?action=watch&job=<id> is printed and the CGI process
\* exits; a child that has exited unreaped is reaped by init
StartRedirect(h) ==
  /\ hs[h].pc = "redirect"
  /\ hs' = [hs EXCEPT ![h].pc = "done", ![h].out = "redirect"]
  /\ child' = [child EXCEPT ![h].st = IF @ = "zombie" THEN "gone" ELSE @]
  /\ UNCHANGED <<clock, dirs, files, watcher, cl, pl, rq>>

\* ------------------------------------------------------------ the child
\* the command writes one byte at its descriptor's offset
ChildWrite(h, B, max) ==
  /\ child[h].st = "running"
  /\ child[h].n < max
  /\ \E b \in B :
       files' = [files EXCEPT ![child[h].job].log.data =
                   WriteAt(@, child[h].off, b)]
  /\ child' = [child EXCEPT ![h].off = @ + 1, ![h].n = @ + 1]
  /\ UNCHANGED <<clock, dirs, hs, watcher, cl, pl, rq>>

\* the command exits with status c; it stays a zombie while the start_job
\* process that spawned it is alive and has not waited for it
ChildExit(h) ==
  /\ child[h].st = "running"
  /\ \E c \in ExitCodes :
       child' = [child EXCEPT ![h].code = c,
                   ![h].st = IF hs[h].pc = "done" THEN "gone" ELSE "zombie"]
  /\ UNCHANGED <<clock, dirs, files, hs, watcher, cl, pl, rq>>

\* ------------------------------------------------------------ the watcher
\* faulty variant of process_running: the probe still succeeds for a pid
\* whose process is gone
process_running_stale(pid) == \E h \in Handlers : ChildPid(h) = pid

\* os.kill(pid, 0) / kill -0 pid: the pid names a process, zombies included
process_running(pid) ==
  \E h \in Handlers : ChildPid(h) = pid /\ child[h].st \in {"running", "zombie"}

\* while kill -0 PID 2>/dev/null; do sleep 1; done
\* the status of the while command is that of the last body command (sleep,
\* 0), or 0 when the body never ran
WatcherLoop(h) ==
  /\ watcher[h].st = "loop"
  /\ watcher' = [watcher EXCEPT ![h].last = 0,
                   ![h].st = IF process_running(ChildPid(h)) THEN "loop"
                            ELSE "open"]
  /\ UNCHANGED <<clock, dirs, files, hs, child, cl, pl, rq>>

\* echo $? > rc.txt: the shell first opens rc.txt with O_CREAT|O_TRUNC ...
WatcherOpen(h) ==
  /\ watcher[h].st = "open"
  /\ files' = [files EXCEPT ![child[h].job].rc = EmptyFile]
  /\ watcher' = [watcher EXCEPT ![h].st = "echo"]
  /\ UNCHANGED <<clock, dirs, hs, child, cl, pl, rq>>

\* ... then echo writes the expansion of $? and a newline
WatcherEcho(h) ==
  /\ watcher[h].st = "echo"
  /\ files' = [files EXCEPT ![child[h].job].rc.data = RcText(watcher[h].last)]
  /\ watcher' = [watcher EXCEPT ![h].st = "done"]
  /\ UNCHANGED <<clock, dirs, hs, child, cl, pl, rq>>


\* ------------------------------------------------------------ polls
\* offsets a poll request may carry: negative, inside the log, beyond it
PollPositions == (0 - 1)..(MaxOutput + 1)

\* GET ?action=poll&job=<job_id>&pos=<p>.  poll_job opens files only for
\* reading, so the answer to a request from any client at any moment is the
\* value of poll_job in the current state.
PollNow(job_id, p) == poll_job(files, dirs, clock, job_id, p)

\* the watch page a redirect leads to: var pos = 0; var done = false
WatchOpen(h) ==
  /\ ~cl.on
  /\ hs[h].out = "redirect"
  /\ cl' = [NoClient EXCEPT !.on = TRUE, !.job = hs[h].job]
  /\ UNCHANGED <<clock, dirs, files, hs, child, watcher, pl, rq>>

\* '&pos=' + pos, then int(form.getfirst("pos", "0")): a number from 1e21 on
\* is printed with an exponent, int() raises and pos falls back to 0
PosParam(pos) == IF pos >= CookieBase THEN 0 ELSE pos

\* one round of the page's poll(): pos = r.pos; log += r.append;
\* if (r.done) done = true; else setTimeout(poll, 2000).  (The text of a page
\* whose pos fell back to 0 grows for ever; rounds stop here once it is
\* longer than any log.)
WatchPoll ==
  /\ cl.on /\ ~cl.done
  /\ Len(cl.text) <= MaxOutput
  /\ LET r == PollNow(cl.job, PosParam(cl.pos)) IN
       /\ r.kind = "ok"
       /\ cl' = [cl EXCEPT !.pos = r.pos, !.text = @ \o r.append,
                           !.done = r.done]
  /\ UNCHANGED <<clock, dirs, files, hs, child, watcher, pl, rq>>

\* ------------------------------------------------------------ behaviours
\* The store from its creation on: concurrent start_job requests, their
\* children and watchers.
Next ==
  \/ Tick
  \/ \E h \in Handlers : StartDirs(h)
  \/ \E h \in Handlers : StartMkdir(h)
  \/ \E h \in Handlers : StartMetaOpen(h)
  \/ \E h \in Handlers : StartMetaDump(h)
  \/ \E h \in Handlers : StartLogOpen(h)
  \/ \E h \in Handlers : StartLogOpenFail(h)
  \/ \E h \in Handlers : StartPopenOk(h)
  \/ \E h \in Handlers : StartPopenFail(h)
  \/ \E h \in Handlers : StartMeta2Open(h)
  \/ \E h \in Handlers : StartMeta2Dump(h)
  \/ \E h \in Handlers : StartWatcher(h)
  \/ \E h \in Handlers : StartRedirect(h)
  \/ \E h \in Handlers : ChildWrite(h, {"a"}, MaxWrites)
  \/ \E h \in Handlers : ChildExit(h)
  \/ \E h \in Handlers : WatcherLoop(h)
  \/ \E h \in Handlers : WatcherOpen(h)
  \/ \E h \in Handlers : WatcherEcho(h)

Spec == Init /\ [][Next]_vars

\* The start_job requests of one clock second with the processes they
\* spawn, the commands producing no output.
NextLaunch ==
  \/ \E h \in Handlers : StartDirs(h)
  \/ \E h \in Handlers : StartMkdir(h)
  \/ \E h \in Handlers : StartMetaOpen(h)
  \/ \E h \in Handlers : StartMetaDump(h)
  \/ \E h \in Handlers : StartLogOpen(h)
  \/ \E h \in Handlers : StartLogOpenFail(h)
  \/ \E h \in Handlers : StartPopenOk(h)
  \/ \E h \in Handlers : StartPopenFail(h)
  \/ \E h \in Handlers : StartMeta2Open(h)
  \/ \E h \in Handlers : StartMeta2Dump(h)
  \/ \E h \in Handlers : StartWatcher(h)
  \/ \E h \in Handlers : StartRedirect(h)
  \/ \E h \in Handlers : ChildExit(h)
  \/ \E h \in Handlers : WatcherLoop(h)
  \/ \E h \in Handlers : WatcherOpen(h)
  \/ \E h \in Handlers : WatcherEcho(h)

SpecLaunch == Init /\ [][NextLaunch]_vars


\* The scheduler runs every process that can take a step: the handlers, the
\* watchers, and the children up to their exit.
Fairness ==
  /\ \A h \in Handlers : WF_vars(StartMeta2Open(h))
  /\ \A h \in Handlers : WF_vars(StartMeta2Dump(h))
  /\ \A h \in Handlers : WF_vars(StartWatcher(h))
  /\ \A h \in Handlers : WF_vars(StartRedirect(h))
  /\ \A h \in Handlers : WF_vars(WatcherLoop(h))
  /\ \A h \in Handlers : WF_vars(WatcherOpen(h))
  /\ \A h \in Handlers : WF_vars(WatcherEcho(h))

FairSpec == Spec /\ Fairness

\* One job after its start_job has returned the redirect, observed by the
\* watch page while the command writes arbitrary bytes.
FirstJob == new_job_id(1, "aa")

InitRead ==
  /\ clock = 1
  /\ dirs = Mkdir(Mkdir(ensure_dirs({ROOT, <<"tmp">>}),
                        Append(RUN_TMP, "ansible-local")),
                  job_paths(FirstJob).dir)
  /\ files = [j \in JobIds |->
                IF j = FirstJob
                THEN [cmd |-> TRUE,
                      meta |-> [st |-> "full", start_ts |-> 1,
                                pid |-> ChildPid(1)],
                      log |-> EmptyFile, rc |-> NoFile]
                ELSE NoJobFiles]
  /\ hs = [h \in Handlers |->
             IF h = 1 THEN [pc |-> "done", job |-> FirstJob, ts |-> 1,
                            out |-> "redirect"]
             ELSE IdleHandler]
  /\ child = [h \in Handlers |->
                IF h = 1 THEN [st |-> "running", job |-> FirstJob, off |-> 0,
                               n |-> 0, code |-> None]
                ELSE NoChild]
  /\ watcher = [h \in Handlers |->
                  IF h = 1 THEN [st |-> "loop", last |-> 0] ELSE NoWatcher]
  /\ cl = NoClient
  /\ pl = [i \in Pollers |-> NoPoller]
  /\ rq = NoRequest

NextRead ==
  \/ Tick
  \/ \E h \in Handlers : ChildWrite(h, OutBytes, MaxOutput)
  \/ \E h \in Handlers : ChildExit(h)
  \/ \E h \in Handlers : WatcherLoop(h)
  \/ \E h \in Handlers : WatcherOpen(h)
  \/ \E h \in Handlers : WatcherEcho(h)
  \/ \E h \in Handlers : WatchOpen(h)
  \/ WatchPoll

SpecRead == InitRead /\ [][NextRead]_vars

\* the watcher's shell is scheduled whenever it can step; a poll is a read of
\* the store, so a poller that keeps polling sees every state that persists
FairnessRead ==
  \A h \in Handlers :
    WF_vars(WatcherLoop(h) \/ WatcherOpen(h) \/ WatcherEcho(h))

FairRead == SpecRead /\ FairnessRead


\* One start_job request from the moment it has opened output.log: the
\* spawn of the command, the rest of the handler, the command and the
\* watcher, in every order the scheduler allows.
InitSpawn ==
  /\ clock = 1
  /\ dirs = Mkdir(Mkdir(ensure_dirs({ROOT, <<"tmp">>}),
                        Append(RUN_TMP, "ansible-local")),
                  job_paths(FirstJob).dir)
  /\ files = [j \in JobIds |->
                IF j = FirstJob
                THEN [cmd |-> TRUE,
                      meta |-> [st |-> "full", start_ts |-> 1, pid |-> None],
                      log |-> EmptyFile, rc |-> NoFile]
                ELSE NoJobFiles]
  /\ hs = [h \in Handlers |->
             IF h = 1 THEN [pc |-> "popen", job |-> FirstJob, ts |-> 1,
                            out |-> "none"]
             ELSE IdleHandler]
  /\ child = [h \in Handlers |-> NoChild]
  /\ watcher = [h \in Handlers |-> NoWatcher]
  /\ cl = NoClient
  /\ pl = [i \in Pollers |-> NoPoller]
  /\ rq = NoRequest

NextSpawn ==
  \/ \E h \in Handlers : StartPopenOk(h)
  \/ \E h \in Handlers : StartPopenFail(h)
  \/ \E h \in Handlers : StartMeta2Open(h)
  \/ \E h \in Handlers : StartMeta2Dump(h)
  \/ \E h \in Handlers : StartWatcher(h)
  \/ \E h \in Handlers : StartRedirect(h)
  \/ \E h \in Handlers : ChildWrite(h, OutBytes, MaxOutput)
  \/ \E h \in Handlers : ChildExit(h)
  \/ \E h \in Handlers : WatcherLoop(h)
  \/ \E h \in Handlers : WatcherOpen(h)
  \/ \E h \in Handlers : WatcherEcho(h)

SpecSpawn == InitSpawn /\ [][NextSpawn]_vars

\* the start_job process and the watcher's shell are scheduled whenever they
\* can step (the steps of one process are enabled one at a time); nothing
\* makes the command write or exit
FairnessSpawn ==
  /\ \A h \in Handlers :
       WF_vars(StartMeta2Open(h) \/ StartMeta2Dump(h) \/ StartWatcher(h)
                 \/ StartRedirect(h))
  /\ \A h \in Handlers :
       WF_vars(WatcherLoop(h) \/ WatcherOpen(h) \/ WatcherEcho(h))

FairSpawn == SpecSpawn /\ FairnessSpawn

\* ------------------------------------------------------------ pollers
\* the bytes of output.log of the directory an id resolves to
LogOf(job_id) == JobFiles(files, dirs, job_id).log.data

\* faulty variant of OpenFile: every open creates or truncates
OpenFileW(f, mode) == EmptyFile

\* open(path, mode): "r" leaves the file as it is, "w" creates or truncates
OpenFile(f, mode) == IF mode = "w" THEN EmptyFile ELSE f

\* faulty variant of PollEffect: a destructive read, the poll drops the log
\* it has returned
PollEffectConsume(fs, ds, job_id, reqpos) ==
  IF job_id \in JobIds /\ IsDir(ds, job_paths(job_id).dir)
  THEN [fs EXCEPT ![job_id].log = IF @.exists THEN EmptyFile ELSE @]
  ELSE fs

\* the files after one poll_job request: read_json opens meta.json for
\* reading, output.log is opened "r" when it holds bytes past the offset,
\* rc.txt is opened "r" when it exists; nothing else is touched
PollEffect(fs, ds, job_id, reqpos) ==
  IF job_id \in JobIds /\ IsDir(ds, job_paths(job_id).dir)
  THEN [fs EXCEPT
          ![job_id].log = IF @.exists /\ Len(@.data) > reqpos
                          THEN OpenFile(@, "r") ELSE @,
          ![job_id].rc  = IF @.exists THEN OpenFile(@, "r") ELSE @]
  ELSE fs

\* ids the independent pollers ask for: the job, a directory that is no
\* job, a name that does not exist
PollTargets == {FirstJob, "..", "nosuch"}

\* one poll_job request of poller i: the first for any target at offset 0
\* or below, later ones for the same id at the pos it was last given
PollerPoll(i) ==
  /\ pl[i].n < MaxPolls
  /\ \E j \in IF pl[i].n = 0 THEN PollTargets ELSE {pl[i].job} :
     \E p \in IF pl[i].n = 0 THEN {0 - 1, 0}
               ELSE IF pl[i].resp.kind = "ok" THEN {PosParam(pl[i].resp.pos)}
               ELSE {0} :
       /\ pl' = [pl EXCEPT ![i] = [n |-> pl[i].n + 1, job |-> j,
                                   seen |-> LogOf(j),
                                   resp |-> PollNow(j, p)]]
       /\ files' = PollEffect(files, dirs, j, p)
  /\ UNCHANGED <<clock, dirs, hs, child, watcher, cl, rq>>

\* One started job, its child and watcher, and two independent pollers.
NextPoll ==
  \/ \E h \in Handlers : ChildWrite(h, OutBytes, MaxWrites)
  \/ \E h \in Handlers : ChildExit(h)
  \/ \E h \in Handlers : WatcherLoop(h)
  \/ \E h \in Handlers : WatcherOpen(h)
  \/ \E h \in Handlers : WatcherEcho(h)
  \/ \E i \in Pollers : PollerPoll(i)

SpecPoll == InitRead /\ [][NextPoll]_vars


\* ------------------------------------------------------------ one poll
\* poll_job statement by statement, with the place where the environment
\* makes a system call fail: "stat" (os.path.getsize), "open", "read" (the
\* read of the log), "rc" (the read of rc.txt), or "none".

\* faulty variant of ClampPos: the sign of a negative offset is dropped
ClampPosAbs(p) == IF p < 0 THEN 0 - p ELSE p

\* if pos < 0: pos = 0
ClampPos(p) == IF p < 0 THEN 0 ELSE p

\* faulty variant of ReadFailed: a failed read skips the chunk
ReadFailedSkip(pos) == [append |-> << >>, pos |-> pos + ChunkSize]

\* except Exception: pass -- append and pos keep the values they had
ReadFailed(pos) == [append |-> << >>, pos |-> pos]

\* if os.path.exists(jp["rc"]): rc = int(...) / rc = 1; done = True
MarkerBranch(rcfile, fault) ==
  [rc |-> IF fault = "rc" THEN 1 ELSE ParseRc(rcfile.data), done |-> TRUE]

\* faulty variant of NoMarkerBranch: a job whose recorded process is gone is
\* reported as failed
NoMarkerBranchPid(meta) ==
  [rc |-> IF meta.pid # None /\ ~process_running(meta.pid) THEN 1 ELSE None,
   done |-> meta.pid # None /\ ~process_running(meta.pid)]

\* else: pid = meta.get("pid");
\*       done = False if (pid and process_running(int(pid))) else False
NoMarkerBranch(meta) ==
  [rc |-> None,
   done |-> IF meta.pid # None /\ process_running(meta.pid)
            THEN FALSE ELSE FALSE]

Faults == {"none", "stat", "open", "read", "rc"}

poll_job_io(fs, ds, now, job_id, reqpos, fault) ==
  IF ~IsDir(ds, job_paths(job_id).dir)
  THEN [kind |-> "error", error |-> "no-such-job"]
  ELSE
    LET jf       == JobFiles(fs, ds, job_id)
        meta     == read_json(jf.meta)
        start_ts == IF meta.st = "full" THEN meta.start_ts ELSE now
        sz       == IF jf.log.exists THEN Len(jf.log.data) ELSE 0
        pos0     == ClampPos(reqpos)
        rd       == IF jf.log.exists /\ fault = "stat"
                    THEN ReadFailed(reqpos)
                    ELSE IF sz > pos0 /\ jf.log.exists
                    THEN IF fault \in {"open", "read"}
                         THEN ReadFailed(pos0)
                         ELSE ReadChunk(jf.log.data, pos0, ChunkSize)
                    ELSE [append |-> << >>, pos |-> pos0]
        br       == IF jf.rc.exists THEN MarkerBranch(jf.rc, fault)
                    ELSE NoMarkerBranch(meta)
    IN  [kind |-> "ok", pos |-> rd.pos, append |-> rd.append,
         elapsed |-> now - start_ts, done |-> (br.rc # None), rc |-> br.rc]

\* the contents the files of one job directory can be given
LogContents == UNION {[1..n -> OutBytes] : n \in 0..MaxOutput}

RcContents ==
  {<< >>, <<"0", "\n">>, <<"1", "\n">>, <<"2">>, <<"1", "2", "\n">>,
   <<"-", "2", "\n">>, <<"x", "\n">>, <<"\n">>, <<" ", "2", " ">>,
   <<"1", "\n", "2">>}

MetaContents ==
  {[st |-> "empty", start_ts |-> 0, pid |-> None],
   [st |-> "full", start_ts |-> 1, pid |-> None],
   [st |-> "full", start_ts |-> 1, pid |-> ChildPid(1)]}

\* A job directory with any content of meta.json, output.log and rc.txt,
\* the command alive or gone, and one poll request answered from it.
InitAnswer ==
  /\ clock = MaxClock
  /\ dirs = Mkdir(Mkdir(ensure_dirs({ROOT, <<"tmp">>}),
                        Append(RUN_TMP, "ansible-local")),
                  job_paths(FirstJob).dir)
  /\ \E m \in MetaContents :
     \E l \in {NoFile} \cup {[exists |-> TRUE, data |-> d] : d \in LogContents} :
     \E r \in {NoFile} \cup {[exists |-> TRUE, data |-> d] : d \in RcContents} :
       files = [j \in JobIds |->
                  IF j = FirstJob
                  THEN [cmd |-> TRUE, meta |-> m, log |-> l, rc |-> r]
                  ELSE NoJobFiles]
  /\ hs = [h \in Handlers |->
             IF h = 1 THEN [pc |-> "done", job |-> FirstJob, ts |-> 1,
                            out |-> "redirect"]
             ELSE IdleHandler]
  /\ \E st \in {"running", "gone"} :
       child = [h \in Handlers |->
                  IF h = 1 THEN [st |-> st, job |-> FirstJob, off |-> 0,
                                 n |-> 0,
                                 code |-> IF st = "gone" THEN 1 ELSE None]
                  ELSE NoChild]
  /\ watcher = [h \in Handlers |-> NoWatcher]
  /\ cl = NoClient
  /\ pl = [i \in Pollers |-> NoPoller]
  /\ rq = NoRequest

\* GET ?action=poll&job=<j>&pos=<p>
AnswerPoll ==
  /\ rq.out = "none"
  /\ \E j \in PollTargets, p \in PollPositions \cup {CookieBase + 1},
        fault \in Faults :
       rq' = [out |-> "answer", job |-> j, pos |-> p, fault |-> fault,
              resp |-> poll_job_io(files, dirs, clock, j, p, fault)]
  /\ UNCHANGED <<clock, dirs, files, hs, child, watcher, cl, pl>>

SpecAnswer == InitAnswer /\ [][AnswerPoll]_vars

\* ------------------------------------------------------------ the form
\* The request fields start_job / run_playbook read, and the command line,
\* command.txt and meta.json made from them.  A field the form does not
\* carry and a dictionary key a playbook does not define are both "".
Runners == {"runner4", "runner12", "runner10", "testcgi"}

DEFAULT_USER == "ansadmin"
ANSIBLE_BIN  == "/usr/bin/ansible-playbook"
SUDO_BIN     == "/usr/bin/sudo"
USE_SUDO     == FALSE

IntelPb(force) ==
  [path |-> "/var/www/cgi-bin/intel-check.yml", inventories |-> {"intel-inv"},
   force_ssh_user |-> force, ssh_private_key |-> "",
   suggest_ssh_user |-> "", become_user |-> ""]

AmdPb(force, key, suggest, become) ==
  [path |-> "/var/www/cgi-bin/amd-check.yml", inventories |-> {"amd-inv"},
   force_ssh_user |-> force, ssh_private_key |-> key,
   suggest_ssh_user |-> suggest, become_user |-> become]

PLAYBOOKS(runner) ==
  CASE runner = "runner10" ->
         [k \in {"intel", "amd"} |->
            IF k = "intel" THEN IntelPb("cloud-user")
            ELSE AmdPb("cbidd-ada",
                       "/var/lib/www-ansible/keys/serveradmin.pem",
                       "serveradmin", "")]
    [] runner = "testcgi" ->
         [k \in {"intel", "amd"} |->
            IF k = "intel" THEN IntelPb("cloudadmin")
            ELSE AmdPb("", "", "serveradmin", "awsuser")]
    [] OTHER ->
         [k \in {"intel", "amd"} |->
            IF k = "intel" THEN IntelPb("cloudadmin")
            ELSE AmdPb("", "", "", "")]

INVENTORIES ==
  [k \in {"intel-inv", "amd-inv"} |->
     [path |-> IF k = "intel-inv" THEN "/var/www/cgi-bin/intel-inv.ini"
               ELSE "/var/www/cgi-bin/amd-inv.ini"]]

\* the values a client can put in the form
Passwords == {"", "pw1", "pw2"}

Forms ==
  [playbook : {"intel", "amd", "nope"},
   inventory_key : {"intel-inv", "amd-inv"},
   hosts : {<< >>, <<"h1", "h2">>, <<"bad host">>},
   user : {"", "root", " root", "bad user", "custom"},
   user_custom : {"", "opsuser"},
   tags : {"", "t1"},
   check : BOOLEAN, become : BOOLEAN,
   password : Passwords, become_pass : Passwords]

\* str.strip()
Strip(x) == IF x = " root" THEN "root" ELSE x

\* HOST_RE, USER_RE, TAGS_RE: one or more of [A-Za-z0-9_.-] (and "," in tags)
NameOk(x) == x \notin {"", "bad host", "bad user", " root", "bad tags"}

\* ",".join(hosts)
RECURSIVE JoinComma(_)
JoinComma(xs) ==
  IF xs = << >> THEN ""
  ELSE IF Len(xs) = 1 THEN xs[1]
  ELSE xs[1] \o "," \o JoinComma(Tail(xs))

\* the user the request names
FormUser(runner, f) ==
  IF runner = "testcgi"
  THEN IF f.user = "custom" THEN Strip(f.user_custom)
       ELSE IF Strip(f.user) = "" THEN DEFAULT_USER ELSE Strip(f.user)
  ELSE Strip(IF f.user = "" THEN DEFAULT_USER ELSE f.user)

\* faulty variant of EffectiveUser: the submitted user is always used
EffectiveUserForm(runner, f) == FormUser(runner, f)

\* the login user: force_ssh_user of the playbook overrides the form
EffectiveUser(runner, f) ==
  LET pb == PLAYBOOKS(runner)[f.playbook] IN
  IF pb.force_ssh_user # "" THEN pb.force_ssh_user
  ELSE IF runner = "testcgi" /\ pb.suggest_ssh_user # "" /\ f.user = ""
  THEN pb.suggest_ssh_user
  ELSE FormUser(runner, f)

\* the validation of the request: "ok" or the message of render_form
Validate(runner, f) ==
  IF f.playbook \notin DOMAIN PLAYBOOKS(runner)
  THEN "Invalid playbook selected."
  ELSE IF \/ f.inventory_key \notin DOMAIN INVENTORIES
          \/ f.inventory_key \notin PLAYBOOKS(runner)[f.playbook].inventories
  THEN "Invalid inventory for selected playbook."
  ELSE IF f.hosts = << >> THEN "No hosts selected."
  ELSE IF \E k \in 1..Len(f.hosts) : ~NameOk(f.hosts[k])
  THEN "Invalid hostname"
  ELSE IF runner # "testcgi" /\ ~NameOk(FormUser(runner, f))
  THEN "Invalid SSH user."
  ELSE IF f.tags # "" /\ ~NameOk(f.tags)
  THEN "Invalid characters in tags."
  ELSE IF runner = "testcgi" /\ ~NameOk(EffectiveUser(runner, f))
  THEN "Invalid SSH user."
  ELSE "ok"

Opt(cond, args) == IF cond THEN args ELSE << >>

\* cmd, the argument vector handed to subprocess
BuildCmd(runner, f) ==
  LET pb   == PLAYBOOKS(runner)[f.playbook]
      pw   == IF runner = "runner10" /\ f.playbook = "amd" THEN ""
              ELSE Strip(f.password)
      bp   == Strip(f.become_pass)
      base == <<ANSIBLE_BIN, "-i", INVENTORIES[f.inventory_key].path, pb.path,
                "--limit", JoinComma(f.hosts), "-u", EffectiveUser(runner, f)>>
              \o Opt(f.check, <<"--check">>)
      pwd  == Opt(pw # "", <<"-e", "ansible_password=" \o pw>>)
      bpw  == Opt(bp # "", <<"-e", "ansible_become_password=" \o bp>>)
      key  == Opt(pb.ssh_private_key # "",
                  <<"--private-key", pb.ssh_private_key>>)
      tags == Opt(f.tags # "", <<"--tags", f.tags>>)
      cmd  == CASE runner = "runner10" ->
                     base \o Opt(f.become, <<"-b">>) \o tags \o pwd \o bpw
                          \o key
                [] runner = "testcgi" ->
                     base \o (IF pb.become_user # ""
                              THEN <<"-b", "--become-user", pb.become_user>>
                              ELSE Opt(f.become, <<"-b">>))
                          \o tags
                          \o Opt(pw # "", <<"-e", "ansible_password=" \o pw,
                                            "-e", "ansible_ssh_pass=" \o pw>>)
                          \o bpw
                [] OTHER ->
                     base \o Opt(f.become, <<"-b">>) \o tags \o key \o pwd
                          \o bpw
  IN  IF USE_SUDO THEN <<SUDO_BIN, "-n", "--">> \o cmd ELSE cmd

\* faulty variant of MaskedCmd: the whole command is saved
MaskedCmdAll(runner, cmd) == cmd

\* the line written to command.txt: runner4 keeps the first four arguments,
\* runner12 writes a constant
MaskedCmd(runner, cmd) ==
  IF runner = "runner4"
  THEN SubSeq(cmd, 1, IF Len(cmd) < 4 THEN Len(cmd) ELSE 4) \o <<"[...]">>
  ELSE <<"ansible-playbook [redacted]">>

\* the dictionary written to meta.json, without start_ts and pid
MetaOf(runner, f) ==
  [playbook_key |-> f.playbook, inventory_key |-> f.inventory_key,
   hosts |-> f.hosts, user |-> EffectiveUser(runner, f)]

\* what one request persists: runner4 and runner12 keep a job directory,
\* runner10 and testcgi run the command in the request and keep nothing
Persisted(runner, f) ==
  IF runner \in {"runner4", "runner12"}
  THEN [cmdtxt |-> MaskedCmd(runner, BuildCmd(runner, f)),
        meta |-> MetaOf(runner, f)]
  ELSE [cmdtxt |-> << >>, meta |-> << >>]

\* a form arrives at one of the scripts
InitForm ==
  /\ clock = 1
  /\ dirs = {ROOT, <<"tmp">>}
  /\ files = [j \in JobIds |-> NoJobFiles]
  /\ hs = [h \in Handlers |-> IdleHandler]
  /\ child = [h \in Handlers |-> NoChild]
  /\ watcher = [h \in Handlers |-> NoWatcher]
  /\ cl = NoClient
  /\ pl = [i \in Pollers |-> NoPoller]
  /\ rq \in [out : {"none"}, runner : Runners, form : Forms]

\* the request is validated; a valid one gets its command built and
\* launched, and in runner4 / runner12 command.txt and meta.json written
SubmitForm ==
  /\ rq.out = "none"
  /\ rq' = IF Validate(rq.runner, rq.form) # "ok"
           THEN [out |-> "form", runner |-> rq.runner, form |-> rq.form,
                 msg |-> Validate(rq.runner, rq.form)]
           ELSE [out |-> "launched", runner |-> rq.runner, form |-> rq.form,
                 cmd |-> BuildCmd(rq.runner, rq.form),
                 saved |-> Persisted(rq.runner, rq.form)]
  /\ UNCHANGED <<clock, dirs, files, hs, child, watcher, cl, pl>>

SpecForm == InitForm /\ [][SubmitForm]_vars

\* ------------------------------------------------------------ main
\* One request to runner4.py or runner12.py, served by main(): the store
\* holds one earlier job that has finished.
AsyncRunners == {"runner4", "runner12"}

\* REQUEST_METHOD as the server hands it over, and str.upper()
Methods == {"GET", "get", "POST", "post", "HEAD"}

Upper(m) == IF m = "get" THEN "GET" ELSE IF m = "post" THEN "POST" ELSE m

\* form.getfirst("action", ""): "" when the request has no action
ActionParams == {"start", "watch", "poll", "list_reports", "view_report", ""}

\* the fields of the requests main() is given
MainForms ==
  [playbook : {"intel", "nope", ""},
   inventory_key : {"intel-inv", "amd-inv", "zzz"},
   hosts : {<< >>, <<"h1", "h2">>, <<"bad host">>},
   user : {"", "bad user"},
   user_custom : {""},
   tags : {"", "t1", "bad tags"},
   check : {FALSE}, become : {FALSE},
   password : {""}, become_pass : {""}]

\* faulty variant of Dispatch: action=start is served whatever the method
DispatchAnyMethod(runner, method, action) ==
  IF action = "start" THEN "start_job"
  ELSE IF method = "GET" /\ action = "watch" THEN "render_watch"
  ELSE IF method = "GET" /\ action = "poll" THEN "poll_job"
  ELSE IF runner = "runner4" /\ method = "GET" /\ action = "list_reports"
  THEN "render_list_reports"
  ELSE IF runner = "runner4" /\ method = "GET" /\ action = "view_report"
  THEN "render_view_report"
  ELSE "render_form"

\* the if / elif chain of main(): the function that serves the request
Dispatch(runner, method, action) ==
  IF method = "POST" /\ action = "start" THEN "start_job"
  ELSE IF method = "GET" /\ action = "watch" THEN "render_watch"
  ELSE IF method = "GET" /\ action = "poll" THEN "poll_job"
  ELSE IF runner = "runner4" /\ method = "GET" /\ action = "list_reports"
  THEN "render_list_reports"
  ELSE IF runner = "runner4" /\ method = "GET" /\ action = "view_report"
  THEN "render_view_report"
  ELSE "render_form"

\* except Exception in main(): header_ok() and the traceback in a <pre>
Traceback(err) == [page |-> "traceback", msg |-> err]

\* render_form(msg, form).  PLAYBOOKS[selected_playbook] is read for every
\* non-empty playbook, so an unknown one raises KeyError; runner12 passes its
\* page, whose style sheet has single braces, to str.format, which raises
\* KeyError for every request.
render_form(runner, f, msg) ==
  IF f.playbook # "" /\ f.playbook \notin DOMAIN PLAYBOOKS(runner)
  THEN Traceback("KeyError: playbook")
  ELSE IF runner = "runner12" THEN Traceback("KeyError: ' font-family'")
  ELSE [page |-> "form", msg |-> msg]

\* render_watch(form): runner4 passes the page, whose style sheet has single
\* braces, to str.format
render_watch(runner, ds, job_id) ==
  IF job_id = "" THEN [page |-> "text", msg |-> "Missing job id."]
  ELSE IF ~IsDir(ds, job_paths(job_id).dir)
  THEN [page |-> "text", msg |-> "Unknown job."]
  ELSE IF runner = "runner4" THEN Traceback("KeyError: ' font-family'")
  ELSE [page |-> "watch", msg |-> job_id]

\* render_list_reports(form): the head of the page goes through str.format
\* with the single braces of its style sheet
render_list_reports == Traceback("KeyError: ' font-family'")

\* render_view_report(form) of a request that names no report
render_view_report == [page |-> "text", msg |-> "Invalid report base"]

\* the request with the function that served it and the page it printed
Served(handler, resp) ==
  [out |-> "served", runner |-> rq.runner, method |-> rq.method,
   action |-> rq.action, form |-> rq.form, job |-> rq.job,
   handler |-> handler, resp |-> resp]

\* the handler process that serves the request
MainHandler == 2

InitMain ==
  /\ clock = 1
  /\ dirs = Mkdir(Mkdir(ensure_dirs({ROOT, <<"tmp">>}),
                        Append(RUN_TMP, "ansible-local")),
                  job_paths(FirstJob).dir)
  /\ files = [j \in JobIds |->
                IF j = FirstJob
                THEN [cmd |-> TRUE,
                      meta |-> [st |-> "full", start_ts |-> 1,
                                pid |-> ChildPid(1)],
                      log |-> [exists |-> TRUE, data |-> <<"a", "H">>],
                      rc |-> [exists |-> TRUE, data |-> RcText(0)]]
                ELSE NoJobFiles]
  /\ hs = [h \in Handlers |->
             IF h = 1 THEN [pc |-> "done", job |-> FirstJob, ts |-> 1,
                            out |-> "redirect"]
             ELSE IdleHandler]
  /\ child = [h \in Handlers |->
                IF h = 1 THEN [st |-> "gone", job |-> FirstJob, off |-> 2,
                               n |-> 2, code |-> 0]
                ELSE NoChild]
  /\ watcher = [h \in Handlers |-> NoWatcher]
  /\ cl = NoClient
  /\ pl = [i \in Pollers |-> NoPoller]
  /\ rq \in [out : {"none"}, runner : AsyncRunners, method : Methods,
             action : ActionParams, form : MainForms,
             job : {FirstJob, "nosuch"}]

\* start_job(form) up to ensure_dirs(): a request that fails the validation
\* gets render_form(msg, form) and start_job returns; a valid one goes on
\* with the steps of the launch
MainStart ==
  /\ rq.out = "none"
  /\ Dispatch(rq.runner, Upper(rq.method), rq.action) = "start_job"
  /\ hs[MainHandler].pc = "idle"
  /\ LET v == Validate(rq.runner, rq.form) IN
     IF v # "ok"
     THEN /\ rq' = Served("start_job", render_form(rq.runner, rq.form, v))
          /\ UNCHANGED <<clock, dirs, files, hs, child, watcher, cl, pl>>
     ELSE /\ rq' = Served("start_job", [page |-> "launch", msg |-> ""])
          /\ dirs' = Mkdir(ensure_dirs(dirs), Append(RUN_TMP, "ansible-local"))
          /\ hs' = [hs EXCEPT ![MainHandler].pc = "newid"]
          /\ UNCHANGED <<clock, files, child, watcher, cl, pl>>

MainWatch ==
  /\ rq.out = "none"
  /\ Dispatch(rq.runner, Upper(rq.method), rq.action) = "render_watch"
  /\ rq' = Served("render_watch", render_watch(rq.runner, dirs, rq.job))
  /\ UNCHANGED <<clock, dirs, files, hs, child, watcher, cl, pl>>

MainPoll ==
  /\ rq.out = "none"
  /\ Dispatch(rq.runner, Upper(rq.method), rq.action) = "poll_job"
  /\ rq' = Served("poll_job", [page |-> "json", msg |-> "",
                               body |-> PollNow(rq.job, 0)])
  /\ UNCHANGED <<clock, dirs, files, hs, child, watcher, cl, pl>>

MainListReports ==
  /\ rq.out = "none"
  /\ Dispatch(rq.runner, Upper(rq.method), rq.action) = "render_list_reports"
  /\ rq' = Served("render_list_reports", render_list_reports)
  /\ UNCHANGED <<clock, dirs, files, hs, child, watcher, cl, pl>>

MainViewReport ==
  /\ rq.out = "none"
  /\ Dispatch(rq.runner, Upper(rq.method), rq.action) = "render_view_report"
  /\ rq' = Served("render_view_report", render_view_report)
  /\ UNCHANGED <<clock, dirs, files, hs, child, watcher, cl, pl>>

MainForm ==
  /\ rq.out = "none"
  /\ Dispatch(rq.runner, Upper(rq.method), rq.action) = "render_form"
  /\ rq' = Served("render_form", render_form(rq.runner, rq.form, ""))
  /\ UNCHANGED <<clock, dirs, files, hs, child, watcher, cl, pl>>

NextMain ==
  \/ MainStart
  \/ MainWatch
  \/ MainPoll
  \/ MainListReports
  \/ MainViewReport
  \/ MainForm
  \/ \E h \in Handlers : StartMkdir(h)
  \/ \E h \in Handlers : StartMetaOpen(h)
  \/ \E h \in Handlers : StartMetaDump(h)
  \/ \E h \in Handlers : StartLogOpen(h)
  \/ \E h \in Handlers : StartLogOpenFail(h)
  \/ \E h \in Handlers : StartPopenOk(h)
  \/ \E h \in Handlers : StartPopenFail(h)
  \/ \E h \in Handlers : StartMeta2Open(h)
  \/ \E h \in Handlers : StartMeta2Dump(h)
  \/ \E h \in Handlers : StartWatcher(h)
  \/ \E h \in Handlers : StartRedirect(h)

SpecMain == InitMain /\ [][NextMain]_vars

\* ------------------------------------------------------------ runner3 do_run
\* One POST request to runner3.py.  rq holds the request, the position of
\* do_run, its locals tmp_inv_path and cmd, and the files of the temporary
\* directory; "" stands for None.
Run3Playbooks ==
  [k \in {"test-pb", "upgrade", "rollback"} |->
     CASE k = "test-pb" -> "/var/pb/test-playbook.yml"
       [] k = "upgrade" -> "/opt/ansible/playbooks/upgrade.yml"
       [] OTHER         -> "/opt/ansible/playbooks/rollback.yml"]

Run3Inventories ==
  [k \in {"test-inv", "staging", "dev"} |->
     CASE k = "test-inv" -> "/var/pb/test-inv.yml"
       [] k = "staging"  -> "/opt/ansible/inv/staging.ini"
       [] OTHER          -> "/opt/ansible/inv/dev.ini"]

Run3Home == <<"var", "lib", "www-ansible", "home">>
Run3Tmp  == <<"var", "lib", "www-ansible", "tmp">>

\* TOKEN_RE: one or more of [A-Za-z0-9_.,-]
TokenOk(x) == x \notin {"", "bad limit"}

\* the fields of the request; hosts is the value split at its commas
Run3Forms ==
  [playbook : {"test-pb", "nope"},
   inventory_key : {"", "dev", "zzz"},
   hosts : {<<"">>, <<"h1", "h2">>, <<"h1", "bad host">>, <<"", "">>},
   select_host : {<< >>, <<"h1">>, <<"bad host">>},
   limit : {"", "web", "bad limit"},
   user : {"", "bad user"},
   become : BOOLEAN, check : BOOLEAN,
   tags : {"", "t1", "bad tags"}]

\* filter(None, [x.strip() for x in hosts_csv.split(",")])
RECURSIVE NonEmpty(_)
NonEmpty(xs) ==
  IF xs = << >> THEN << >>
  ELSE IF Head(xs) = "" THEN NonEmpty(Tail(xs))
  ELSE <<Head(xs)>> \o NonEmpty(Tail(xs))

\* validate_hosts_csv(hosts_csv): the hosts, or the message of ValueError
validate_hosts_csv(csv) ==
  LET hosts == NonEmpty(csv) IN
  IF \E k \in 1..Len(hosts) : ~NameOk(hosts[k])
  THEN [ok |-> FALSE, hosts |-> << >>, msg |-> "Invalid hostname"]
  ELSE IF hosts = << >>
  THEN [ok |-> FALSE, hosts |-> << >>, msg |-> "No valid hostnames provided"]
  ELSE [ok |-> TRUE, hosts |-> hosts, msg |-> ""]

\* tempfile.NamedTemporaryFile(prefix="inv_", suffix=".ini"): a name no file
\* of the directory has
TmpNames == {"inv_1.ini", "inv_2.ini"}

\* do_run returns after render_form(msg)
Run3Form(msg) == [rq EXCEPT !.out = "form", !.pc = "returned", !.msg = msg]

InitRun3 ==
  /\ clock = 1
  /\ dirs = {ROOT, <<"tmp">>}
  /\ files = [j \in JobIds |-> NoJobFiles]
  /\ hs = [h \in Handlers |-> IdleHandler]
  /\ child = [h \in Handlers |-> NoChild]
  /\ watcher = [h \in Handlers |-> NoWatcher]
  /\ cl = NoClient
  /\ pl = [i \in Pollers |-> NoPoller]
  /\ rq \in [out : {"none"}, pc : {"check"}, msg : {""}, form : Run3Forms,
             bin : BOOLEAN, tmp_inv_path : {""}, inventory_path : {""},
             cmd : {<< >>}, tmpdir : {{}, {"inv_1.ini"}}]

\* ANSIBLE_BIN and the playbook key are checked
Run3Check ==
  /\ rq.pc = "check"
  /\ rq' = IF ~rq.bin THEN Run3Form("ansible-playbook not found")
           ELSE IF rq.form.playbook \notin DOMAIN Run3Playbooks
           THEN Run3Form("Invalid or missing playbook selected.")
           ELSE [rq EXCEPT !.pc = "inventory"]
  /\ UNCHANGED <<clock, dirs, files, hs, child, watcher, cl, pl>>

\* the inventory: a known key, or the hosts of the request written to a
\* temporary file that is closed and kept (delete=False)
Run3Inventory ==
  /\ rq.pc = "inventory"
  /\ \E name \in TmpNames \ rq.tmpdir :
       LET f == rq.form
           v == validate_hosts_csv(f.hosts)
       IN  rq' = IF f.inventory_key # ""
                 THEN IF f.inventory_key \notin DOMAIN Run3Inventories
                      THEN Run3Form("Invalid inventory selection.")
                      ELSE [rq EXCEPT !.pc = "args",
                              !.inventory_path =
                                 Run3Inventories[f.inventory_key]]
                 ELSE IF f.hosts = <<"">> THEN [rq EXCEPT !.pc = "args"]
                 ELSE IF ~v.ok THEN Run3Form(v.msg)
                 ELSE [rq EXCEPT !.pc = "args", !.tmp_inv_path = name,
                         !.inventory_path = name,
                         !.tmpdir = @ \cup {name}]
  /\ UNCHANGED <<clock, dirs, files, hs, child, watcher, cl, pl>>

\* cmd is built; select_host, limit, user and tags are validated on the way
\* and a value that fails gets render_form(msg) and return
Run3Args ==
  /\ rq.pc = "args"
  /\ LET f    == rq.form
         user == Strip(IF f.user = "" THEN DEFAULT_USER ELSE f.user)
         inv  == Opt(rq.inventory_path # "", <<"-i", rq.inventory_path>>)
         lim  == IF f.select_host # << >>
                 THEN <<"-l", JoinComma(f.select_host)>>
                 ELSE Opt(f.limit # "", <<"-l", f.limit>>)
     IN  rq' = IF \E k \in 1..Len(f.select_host) : ~NameOk(f.select_host[k])
               THEN Run3Form("Invalid host selected.")
               ELSE IF f.select_host = << >> /\ f.limit # "" /\
                       ~TokenOk(f.limit)
               THEN Run3Form("Invalid characters in limit parameter.")
               ELSE IF ~NameOk(user) THEN Run3Form("Invalid SSH user.")
               ELSE IF f.tags # "" /\ ~NameOk(f.tags)
               THEN Run3Form("Invalid characters in tags.")
               ELSE [rq EXCEPT !.pc = "run",
                       !.cmd = Opt(USE_SUDO, <<SUDO_BIN, "-n", "--">>)
                               \o <<ANSIBLE_BIN>> \o inv \o lim
                               \o <<"-u", user>>
                               \o Opt(f.become, <<"-b">>)
                               \o Opt(f.check, <<"--check">>)
                               \o Opt(f.tags # "", <<"--tags", f.tags>>)
                               \o <<Run3Playbooks[f.playbook]>>]
  /\ UNCHANGED <<clock, dirs, files, hs, child, watcher, cl, pl>>

\* subprocess.run(cmd, timeout=RUN_TIMEOUT_SECS) ends, times out or raises;
\* in each case the temporary inventory is unlinked before do_run returns
Run3Exec ==
  /\ rq.pc = "run"
  /\ \E end \in {"result", "timeout", "traceback"} :
       rq' = [rq EXCEPT !.pc = "returned", !.out = end,
                !.tmpdir = @ \ {rq.tmp_inv_path}]
  /\ dirs' = Mkdir(Mkdir(dirs, Run3Home), Run3Tmp)
  /\ UNCHANGED <<clock, files, hs, child, watcher, cl, pl>>

NextRun3 ==
  \/ Run3Check
  \/ Run3Inventory
  \/ Run3Args
  \/ Run3Exec

SpecRun3 == InitRun3 /\ [][NextRun3]_vars

\* ------------------------------------------------------------ claims
\* the ids start_job has handed to a caller in a redirect
HandedOut == {hs[h].job : h \in {k \in Handlers : hs[k].out = "redirect"}}

IsPrefix(s, t) == Len(s) <= Len(t) /\ SubSeq(t, 1, Len(s)) = s

\* C1: every poll that reports done=true reports the exit code of the job's
\* child; stated for the claim's own instance, exit code 1: a job whose
\* command has exited with code 1 is never reported with done=true and rc=0
C1_RcIsExitCode ==
  \A h \in Handlers, p \in PollPositions :
    child[h].code = 1 =>
      LET r == PollNow(child[h].job, p)
      IN  (r.kind = "ok" /\ r.done) => r.rc = child[h].code

\* C2: a poll with a job id that start_job never handed out is answered with
\* the error object, never with a normal response
C2_UnknownIdNotFound ==
  \A j \in PollIds, p \in PollPositions :
    j \notin HandedOut => PollNow(j, p).kind = "error"

\* C3: once a poll of a job has returned done=true with return code r, every
\* later poll of the job, with any offset, returns done=true with the same r
C3_DoneStable ==
  [][\A j \in JobIds, p \in PollPositions :
       LET r == PollNow(j, p) IN
       (r.kind = "ok" /\ r.done) =>
         \A q \in PollPositions :
           LET r2 == poll_job(files', dirs', clock', j, q)
           IN  r2.kind = "ok" /\ r2.done /\ r2.rc = r.rc]_vars

\* C4: a poll that finds the completion marker finds it complete: rc.txt is
\* never seen existing but empty or partly written
C4_MarkerAtomic ==
  \A j \in JobIds, p \in PollPositions :
    LET r == PollNow(j, p)
    IN  (r.kind = "ok" /\ r.done) => files[j].rc.data = RcText(r.rc)

\* C9: the output log of a job only ever grows: across every step its old
\* content is a prefix of its new content
C9_LogAppendOnly ==
  [][\A j \in JobIds :
       files[j].log.exists =>
         /\ files'[j].log.exists
         /\ IsPrefix(files[j].log.data, files'[j].log.data)]_vars

\* C10: no two start_job invocations obtain the same job id or use the same
\* job directory
C10_UniqueJobIds ==
  \A h1 \in Handlers, h2 \in Handlers :
    (h1 # h2 /\ hs[h1].job # "" /\ hs[h2].job # "")
      => hs[h1].job # hs[h2].job


\* C5: a started job whose child exits with code 0 is eventually, and from
\* then on, reported to its pollers with done=true and rc=0
C5_ExitZeroReported ==
  \A h \in Handlers :
    (child[h].code = 0)
      ~> [](LET r == PollNow(child[h].job, 0)
            IN  r.kind = "ok" /\ r.done /\ r.rc = 0)

\* C5 witness: a child has exited with 0 and the poll of its job reports
\* done=true, rc=0
C5_Witness ==
  \E h \in Handlers :
    /\ child[h].code = 0
    /\ watcher[h].st = "done"
    /\ PollNow(child[h].job, 0).kind = "ok"
    /\ PollNow(child[h].job, 0).done
    /\ PollNow(child[h].job, 0).rc = 0

\* C6: the chunks a client received, starting at 0 and feeding back each
\* returned pos, concatenate to exactly the log content in [0, pos)
C6_ChunksAreLogPrefix ==
  cl.on => cl.text = Decode(Slice(LogOf(cl.job), 0, cl.pos))

\* C7: the append of a poll with requested offset p and returned offset q is
\* exactly the log content in [p, q), p clamped to 0 when negative
C7_AppendIsRange ==
  \A j \in PollIds, p \in PollPositions :
    LET r == PollNow(j, p) IN
    r.kind = "ok" =>
      r.append = Decode(Slice(LogOf(j), IF p < 0 THEN 0 ELSE p, r.pos))

\* C8: the pos a poll returns is never below the integer offset it was asked
\* for, whether that is negative, inside the log, beyond its end or a value
\* an earlier poll returned; so a client that sends each returned pos back
\* sees offsets that never decrease
C8_PosNotBelowRequest ==
  \A j \in PollIds :
    \A p \in PollPositions \cup {CookieBase + i : i \in 0..MaxOutput} :
      LET r == PollNow(j, p) IN
      r.kind = "ok" =>
        /\ r.pos >= p
        /\ LET r2 == PollNow(j, r.pos) IN r2.kind = "ok" /\ r2.pos >= r.pos

\* C8 witness: the watch page has advanced into a log of which polls from
\* a negative offset, from inside and from beyond the end are answered
C8_Witness ==
  /\ cl.on /\ cl.pos > 0
  /\ Len(LogOf(cl.job)) = MaxOutput
  /\ PollNow(cl.job, 0 - 1).append # << >>
  /\ PollNow(cl.job, 1).pos > 1
  /\ PollNow(cl.job, MaxOutput + 1).pos = MaxOutput + 1

\* C11: poll_job is a pure read: for every id and offset a poll leaves the
\* directories and command.txt, meta.json, output.log and rc.txt of every
\* job as they were, and creates no file
C11_PollIsPureRead ==
  /\ [](\A j \in PollIds, p \in PollPositions :
          PollEffect(files, dirs, j, p) = files)
  /\ [][\A i \in Pollers :
          PollerPoll(i) => (files' = files /\ dirs' = dirs)]_vars

\* C11 witness: a poller has read the log and the marker of the job
C11_Witness ==
  \E i \in Pollers :
    /\ pl[i].job = FirstJob /\ pl[i].resp.kind = "ok"
    /\ pl[i].resp.append # << >> /\ pl[i].resp.done
    /\ files[FirstJob].log.exists /\ files[FirstJob].rc.exists

\* the first polls of both pollers were polls of the job from its start
BothPolledJob ==
  \A i \in Pollers :
    pl[i].n = 1 /\ pl[i].job = FirstJob /\ pl[i].resp.kind = "ok"

\* a poll request changes the answer to no other request, now or later
PollsDoNotInterfere ==
  [][\A i \in Pollers :
       PollerPoll(i) =>
         \A j \in PollIds, q \in PollPositions :
           poll_job(files', dirs', clock', j, q) = PollNow(j, q)]_vars

\* C12 as stated: two pollers that call poll(job, 0) concurrently, under any
\* interleaving with the child's appends and the watcher's marker write,
\* receive identical append content, and neither poll changes the result
\* of a later poll
C12_ConcurrentPollsAgree ==
  /\ [](BothPolledJob => pl[1].resp.append = pl[2].resp.append)
  /\ PollsDoNotInterfere

\* C12 amended: two pollers that call poll(job, 0) and read the same log
\* content receive identical append and pos, and neither poll changes the
\* result of a later poll
C12_PollsOfSameLogAgree ==
  /\ [](BothPolledJob /\ pl[1].seen = pl[2].seen =>
          /\ pl[1].resp.append = pl[2].resp.append
          /\ pl[1].resp.pos = pl[2].resp.pos)
  /\ PollsDoNotInterfere

\* C12 witness: both pollers have polled the job from 0 and read the same
\* non-empty log
C12_Witness ==
  /\ BothPolledJob
  /\ pl[1].seen = pl[2].seen /\ pl[1].seen # << >>
  /\ pl[1].resp.append # << >>

\* C13: two polls of a job with the same offset, with no log append and no
\* marker write between them, return identical append, pos, done and rc;
\* a poll whose offset equals the log size returns an empty append
C13_PollIdempotent ==
  /\ [](\A j \in JobIds :
          LET r == PollNow(j, Len(LogOf(j)))
          IN  r.kind = "ok" => r.append = << >> /\ r.pos = Len(LogOf(j)))
  /\ [][\A j \in JobIds, p \in PollPositions :
          LET r == PollNow(j, p) IN
          (/\ r.kind = "ok"
           /\ files'[j].log.data = files[j].log.data
           /\ files'[j].rc = files[j].rc) =>
            LET r2 == poll_job(files', dirs', clock', j, p)
            IN  /\ r2.kind = "ok"
                /\ r2.append = r.append /\ r2.pos = r.pos
                /\ r2.done = r.done /\ r2.rc = r.rc]_vars

\* C13 witness: the job has a log with a multi-byte character and a marker,
\* and the clock has advanced since its start
C13_Witness ==
  /\ Len(LogOf(FirstJob)) = MaxOutput
  /\ "H" \in {LogOf(FirstJob)[k] : k \in 1..Len(LogOf(FirstJob))}
  /\ PollNow(FirstJob, 0).done
  /\ PollNow(FirstJob, 0).elapsed > 0

\* C14: once a poll has reported done=true and the client's offset equals
\* the log size, every later poll with that offset returns an empty append
\* and the same pos: the log does not grow once the marker exists
C14_DrainedStaysDrained ==
  [][\A j \in JobIds :
       LET sz == Len(LogOf(j))
           r  == PollNow(j, sz)
       IN  (r.kind = "ok" /\ r.done) =>
             LET r2 == poll_job(files', dirs', clock', j, sz)
             IN  r2.kind = "ok" /\ r2.append = << >> /\ r2.pos = sz]_vars

\* C15: after a start_job that failed to launch has returned, the job
\* directory of the attempt is gone or marked: a poll of its id is answered
\* with no-such-job or with done=true, not with done=false
C15_FailedLaunchMarked ==
  \A h \in Handlers :
    hs[h].out = "error" =>
      LET r == PollNow(hs[h].job, 0)
      IN  r.kind = "error" \/ r.done

\* C16: a start_job whose launch failed has answered with the error and has
\* returned without going on to the redirect: it has no child and no
\* watcher, and its pid is in no meta.json
C16_LaunchFailureSynchronous ==
  \A h \in Handlers :
    hs[h].out = "error" =>
      /\ hs[h].pc = "done"
      /\ child[h] = NoChild
      /\ watcher[h] = NoWatcher
      /\ \A j \in JobIds : files[j].meta.pid # ChildPid(h)

\* C16 witness: a launch has failed at Popen and its message is in the log
C16_Witness ==
  \E h \in Handlers :
    /\ hs[h].out = "error"
    /\ files[hs[h].job].log.data = <<"F">>
    /\ files[hs[h].job].meta.st = "full"

\* C17: whenever start_job has emitted the redirect with a job id, meta.json
\* of that job holds a pid: the pid is persisted before the id is disclosed
C17_PidBeforeRedirect ==
  \A h \in Handlers :
    hs[h].out = "redirect" =>
      /\ files[hs[h].job].meta.st = "full"
      /\ files[hs[h].job].meta.pid # None

\* C18: a poll of a job that start_job is still creating (meta.json not yet
\* written or being rewritten, or output.log not yet created) is answered
\* with no-such-job, never from partial data
C18_PartialJobNotFound ==
  \A j \in JobIds, p \in PollPositions :
    (files[j].meta.st # "full" \/ ~files[j].log.exists)
      => PollNow(j, p).kind = "error"

Range(xs) == {xs[k] : k \in 1..Len(xs)}

\* the strings that carry a secret of form f
SecretStrings(f) ==
  {x \in {f.password, f.become_pass} : x # ""}
    \cup {"ansible_password=" \o x : x \in {f.password} \ {""}}
    \cup {"ansible_ssh_pass=" \o x : x \in {f.password} \ {""}}
    \cup {"ansible_become_password=" \o x : x \in {f.become_pass} \ {""}}

\* C19: what start_job writes to command.txt and meta.json (job id, start
\* time and pid apart) is the same for requests that differ only in password
\* and become_pass, and holds neither secret
C19_SecretsNotPersisted ==
  (rq.out = "launched" /\ rq.runner \in {"runner4", "runner12"}) =>
    /\ \A pw \in Passwords, bp \in Passwords :
         LET f2 == [rq.form EXCEPT !.password = pw, !.become_pass = bp]
         IN  /\ Validate(rq.runner, f2) = "ok"
             /\ Persisted(rq.runner, f2) = rq.saved
    /\ \A x \in SecretStrings(rq.form) :
         /\ x \notin Range(rq.saved.cmdtxt)
         /\ x \notin Range(rq.saved.meta.hosts)
         /\ x \notin {rq.saved.meta.playbook_key, rq.saved.meta.inventory_key,
                      rq.saved.meta.user}

\* C19 witness: runner4 has launched a command that carries both secrets
C19_Witness ==
  /\ rq.out = "launched" /\ rq.runner = "runner4"
  /\ rq.form.password = "pw1" /\ rq.form.become_pass = "pw2"
  /\ "ansible_password=pw1" \in Range(rq.cmd)
  /\ "ansible_become_password=pw2" \in Range(rq.cmd)
  /\ Len(rq.saved.cmdtxt) = 5

\* the playbook of the submitted form
FormPlaybook == PLAYBOOKS(rq.runner)[rq.form.playbook]

\* C20: a launched command of a playbook with force_ssh_user has the forced
\* user as its -u argument whatever user the form submitted; the submitted
\* user is the -u argument only for playbooks without force_ssh_user
C20_ForcedUserUsed ==
  rq.out = "launched" =>
    LET off == IF USE_SUDO THEN 3 ELSE 0 IN
    /\ rq.cmd[off + 7] = "-u"
    /\ FormPlaybook.force_ssh_user # "" =>
         /\ rq.cmd[off + 8] = FormPlaybook.force_ssh_user
         /\ \A u \in {"", "root", " root", "bad user", "custom"} :
            \A uc \in {"", "opsuser"} :
              LET f2 == [rq.form EXCEPT !.user = u, !.user_custom = uc]
              IN  Validate(rq.runner, f2) = "ok"
                    => BuildCmd(rq.runner, f2) = rq.cmd
    /\ FormPlaybook.force_ssh_user = "" =>
         rq.cmd[off + 8] \in {FormUser(rq.runner, rq.form),
                              FormPlaybook.suggest_ssh_user} \ {""}

\* C20 witness: a form that names the user root has been launched for a
\* playbook with a forced user
C20_Witness ==
  /\ rq.out = "launched"
  /\ rq.form.user = "root"
  /\ FormPlaybook.force_ssh_user = "cloud-user"
  /\ rq.cmd[8] = "cloud-user"

\* C21: no poll reports done=true for a job while a child process of that
\* job is still running: the marker appears only after the child has exited
C21_NoDoneWhileRunning ==
  \A h \in Handlers, p \in PollPositions :
    child[h].st = "running" =>
      LET r == PollNow(child[h].job, p)
      IN  r.kind = "ok" => ~r.done

WatchersOf(j) ==
  {h \in Handlers : watcher[h].st # "none" /\ child[h].job = j}

\* C23: a job's marker is written once and only by the job's one watcher:
\* every job handed out has exactly one watcher, no job has more than one,
\* and rc.txt changes only when that watcher creates it and when it then
\* writes the status into the file it created
C23_MarkerWrittenOnce ==
  /\ [](\A h \in Handlers :
          hs[h].out = "redirect" => Cardinality(WatchersOf(hs[h].job)) = 1)
  /\ [](\A j \in JobIds : Cardinality(WatchersOf(j)) <= 1)
  /\ [][\A j \in JobIds :
          files'[j].rc # files[j].rc =>
            \E h \in WatchersOf(j) :
              \/ /\ watcher[h].st = "open" /\ watcher'[h].st = "echo"
                 /\ files[j].rc = NoFile /\ files'[j].rc = EmptyFile
              \/ /\ watcher[h].st = "echo" /\ watcher'[h].st = "done"
                 /\ files[j].rc = EmptyFile
                 /\ files'[j].rc.data # << >>]_vars

\* C24: bytes enter a job's output.log only through the output stream of the
\* job's command: a step that changes the content of the log to something
\* non-empty is a write of a running child of that job
C24_LogWrittenByChildOnly ==
  [][\A j \in JobIds :
       (files'[j].log.data # files[j].log.data /\ files'[j].log.data # << >>)
         => \E h \in Handlers :
              /\ child[h].st = "running" /\ child[h].job = j
              /\ child'[h].n = child[h].n + 1]_vars

\* the files of the directory the answered request named
AnsweredFiles == JobFiles(files, dirs, rq.job)

C26_WatchPageShowsWholeLog ==
  (cl.on /\ cl.done) => cl.text = Decode(LogOf(cl.job))

\* reading the log failed in the answered poll: output.log is missing, or a
\* system call on it raised
LogReadFailed ==
  /\ rq.out = "answer"
  /\ IsDir(dirs, job_paths(rq.job).dir)
  /\ \/ ~AnsweredFiles.log.exists
     \/ rq.fault = "stat"
     \/ /\ rq.fault \in {"open", "read"}
        /\ Len(AnsweredFiles.log.data) > rq.pos

C28_StartDoesNotWait ==
  \A h \in Handlers :
    /\ (hs[h].pc = "meta2_open") ~> (hs[h].out = "redirect")
    /\ <>[](child[h].st = "running")
         => <>(hs[h].out = "redirect" /\ child[h].st = "running")

\* C28 witness: the redirect has been emitted, the pid is in meta.json, the
\* watcher is looping and the child is still running
C28_Witness ==
  \E h \in Handlers :
    /\ hs[h].out = "redirect" /\ hs[h].pc = "done"
    /\ child[h].st = "running"
    /\ watcher[h].st = "loop"
    /\ files[hs[h].job].meta.pid = ChildPid(h)

\* C29: a poll of an existing job whose log is larger than the requested
\* offset (a negative offset counts as 0) returns a non-empty append of at
\* most one chunk and a pos above the requested offset; otherwise it returns
\* an empty append and the requested offset, raised to 0 when negative
C29_BoundedProgress ==
  (rq.out = "answer" /\ rq.fault \in {"none", "rc"} /\ rq.resp.kind = "ok") =>
    LET sz == IF AnsweredFiles.log.exists
              THEN Len(AnsweredFiles.log.data) ELSE 0
        p0 == IF rq.pos < 0 THEN 0 ELSE rq.pos
    IN  /\ sz > p0 =>
             /\ rq.resp.append # << >>
             /\ Len(rq.resp.append) <= ChunkSize
             /\ rq.resp.pos > p0
        /\ sz <= p0 =>
             /\ rq.resp.append = << >>
             /\ rq.resp.pos = p0

\* C29 witness: a poll with a negative offset of a log longer than a chunk
\* has returned a full chunk
C29_Witness ==
  /\ rq.out = "answer" /\ rq.fault = "none" /\ rq.job = FirstJob
  /\ rq.pos = 0 - 1
  /\ Len(files[FirstJob].log.data) = MaxOutput
  /\ Len(rq.resp.append) = ChunkSize
  /\ rq.resp.pos > 0

\* what Python's int() makes of the stripped content of a marker: the
\* number, or no value when it raises ValueError
IntOfMarker(d) ==
  CASE d = <<"0", "\n">>      -> [ok |-> TRUE, val |-> 0]
    [] d = <<"1", "\n">>      -> [ok |-> TRUE, val |-> 1]
    [] d = <<"2">>            -> [ok |-> TRUE, val |-> 2]
    [] d = <<"1", "2", "\n">> -> [ok |-> TRUE, val |-> 12]
    [] d = <<"-", "2", "\n">> -> [ok |-> TRUE, val |-> 0 - 2]
    [] d = <<" ", "2", " ">>  -> [ok |-> TRUE, val |-> 2]
    [] OTHER                  -> [ok |-> FALSE, val |-> 0]

\* C30: a missing rc.txt gives done=false and rc=null; an rc.txt that is
\* empty or holds no integer gives done=true and rc=1; an rc.txt that holds
\* the integer n gives done=true and rc=n
C30_MarkerContent ==
  (rq.out = "answer" /\ rq.fault # "rc" /\ rq.resp.kind = "ok") =>
    LET m == AnsweredFiles.rc IN
    /\ ~m.exists => (~rq.resp.done /\ rq.resp.rc = None)
    /\ (m.exists /\ ~IntOfMarker(m.data).ok) =>
         (rq.resp.done /\ rq.resp.rc = 1)
    /\ (m.exists /\ IntOfMarker(m.data).ok) =>
         (rq.resp.done /\ rq.resp.rc = IntOfMarker(m.data).val)

\* C30 witness: a marker that holds only a newline has been reported as
\* done with rc 1
C30_Witness ==
  /\ rq.out = "answer" /\ rq.fault = "none" /\ rq.job = FirstJob
  /\ files[FirstJob].rc = [exists |-> TRUE, data |-> <<"\n">>]
  /\ rq.resp.done /\ rq.resp.rc = 1

\* a start request that fails the validation has just been answered
InvalidStartServed ==
  /\ rq.out = "none"
  /\ rq'.out = "served"
  /\ rq'.handler = "start_job"
  /\ Validate(rq.runner, rq.form) # "ok"

\* C31: when the validation of a start request fails, the store is
\* unchanged (no directory, no file, no job id, no process, no watcher) and
\* the form is rendered again with the error message.
C31_InvalidStartRerendersForm ==
  [][InvalidStartServed =>
       /\ UNCHANGED <<dirs, files, hs, child, watcher>>
       /\ rq'.resp = [page |-> "form",
                      msg |-> Validate(rq.runner, rq.form)]]_vars

\* the job state: directories, files, handlers, commands and watchers
JobState == <<dirs, files, hs, child, watcher>>

\* the function the request was served by is one the table allows: start_job
\* for POST with action=start, poll_job and render_watch for GET with
\* action=poll and action=watch
ServedByTable ==
  rq.out = "served" =>
    /\ rq.handler = "start_job" =>
         Upper(rq.method) = "POST" /\ rq.action = "start"
    /\ rq.handler = "poll_job" =>
         Upper(rq.method) = "GET" /\ rq.action = "poll"
    /\ rq.handler = "render_watch" =>
         Upper(rq.method) = "GET" /\ rq.action = "watch"

\* the job state changes only in start_job serving POST with action=start
OnlyStartChangesJobs ==
  [][JobState' # JobState =>
       /\ rq'.out = "served"
       /\ rq'.handler = "start_job"
       /\ Upper(rq'.method) = "POST"
       /\ rq'.action = "start"]_vars

ReturnedWithInventory == rq.pc = "returned" /\ rq.tmp_inv_path # ""

\* C32: on every return path of do_run after the temporary inventory file
\* was created (run ended, timeout, spawn exception, validation failure on
\* select_host, limit, user or tags) the file has been deleted.
C32_TempInventoryDeleted ==
  ReturnedWithInventory => rq.tmp_inv_path \notin rq.tmpdir

====
